---- MODULE Spec2Model ----
(***************************************************************************)
(* Model of src/main.py: the Flask facade (start_server, stop_server,      *)
(* server_status, server_config) over the MinecraftServer controller       *)
(* (download_server, generate_server_files, start, stop, monitor_output),  *)
(* served by waitress worker threads that share the module globals.        *)
(***************************************************************************)
EXTENDS Integers, FiniteSets, Sequences, TLC

(* ---- bounds of the model ---- *)
\* worker threads that handle requests concurrently (waitress runs several)
NThreads == 2
\* external server processes the operating system lets Popen create
MaxSpawn == 2

(* ---- program constants ---- *)
DefaultPort == 25565
DefaultMaxPlayers == 20
DefaultMotd == "A Minecraft Server"
DefaultGamemode == "survival"
DefaultDifficulty == "easy"

\* the waitress worker threads
Threads == 1..NThreads
\* the Popen objects, numbered in the order they are created
Pids == 1..MaxSpawn
\* Python None for the process handle
None == 0
\* Popen(...) is given stdout=PIPE and stderr=STDOUT but no stdin, so the
\* Popen object's stdin attribute is None
StdinPipe == FALSE

(* ---- Python dicts: functions over a finite set of string keys ---- *)
EmptyDict == [k \in {} |-> ""]

\* dict.get(k, default)
Get(d, k, default) == IF k \in DOMAIN d THEN d[k] ELSE default

\* dict.update(e): keys of e overwrite, other keys are kept
Update(d, e) ==
  [k \in (DOMAIN d) \cup (DOMAIN e) |-> IF k \in DOMAIN e THEN e[k] ELSE d[k]]

(* ---- request bodies ---- *)
\* JSON bodies of POST /start-server (keys motd, gamemode, difficulty,
\* maxPlayers; a client may also send port)
StartBodies ==
  { [motd |-> "Hi", maxPlayers |-> 5],
    [difficulty |-> "hard", port |-> 1234] }

\* JSON bodies of POST /api/config (a partial config, merged key by key)
ConfigBodies ==
  { [difficulty |-> "hard"],
    [max_players |-> 7, port |-> 1234] }

\* StartConfig with the body's maxPlayers read under the stored key's name
StartConfigMutKey(body) ==
  [ motd        |-> Get(body, "motd", DefaultMotd),
    gamemode    |-> Get(body, "gamemode", DefaultGamemode),
    difficulty  |-> Get(body, "difficulty", DefaultDifficulty),
    max_players |-> Get(body, "max_players", DefaultMaxPlayers),
    port        |-> DefaultPort ]

\* the record start_server builds from the request body, lines 168-174
StartConfig(body) ==
  [ motd        |-> Get(body, "motd", DefaultMotd),
    gamemode    |-> Get(body, "gamemode", DefaultGamemode),
    difficulty  |-> Get(body, "difficulty", DefaultDifficulty),
    max_players |-> Get(body, "maxPlayers", DefaultMaxPlayers),
    port        |-> DefaultPort ]

\* f"{key}={value}\n"
Line(key, value) == key \o "=" \o value \o "\n"

\* the lines generate_server_files writes to server.properties, in order
Properties(config) ==
  << Line("motd", Get(config, "motd", DefaultMotd)),
     Line("gamemode", Get(config, "gamemode", DefaultGamemode)),
     Line("difficulty", Get(config, "difficulty", DefaultDifficulty)),
     Line("max-players", ToString(Get(config, "max_players", DefaultMaxPlayers))),
     Line("server-port", ToString(Get(config, "port", DefaultPort))),
     Line("online-mode", "false"),
     Line("enable-command-block", "true"),
     Line("spawn-protection", "0") >>

(* ---- responses ---- *)
MsgAlreadyRunning == "Server is already running"
MsgStarted        == "Server started successfully"
MsgStartFailed    == "Failed to start server"
MsgNotRunning     == "Server is not running"
MsgStopped        == "Server stopped successfully"
MsgStopFailed     == "Failed to stop server"
MsgConfigLocked   == "Cannot change config while server is running"
MsgConfigUpdated  == "Configuration updated"
MsgStatus         == "status"
MsgConfig         == "config"

\* a JSON response; running and config are FALSE and {} where the body has
\* no such field
NoResp == [success |-> FALSE, msg |-> "", running |-> FALSE, config |-> EmptyDict]
Resp(ok, m, r, c) == [success |-> ok, msg |-> m, running |-> r, config |-> c]

VARIABLES
  workers,        \* number of waitress worker threads serving requests
  process,        \* mc_server.process: None or the pid of the Popen object
  is_running,     \* mc_server.is_running
  port,           \* mc_server.port
  current_config, \* the global current_config dict
  alive,          \* external server processes that have not exited
  spawned,        \* number of Popen objects created so far
  drains,         \* the monitor_output threads started so far, in order
  jar_exists,     \* JAR_FILE.exists()
  world_exists,   \* (SERVER_DIR / "world").exists()
  eula,           \* content of eula.txt (<< >> when absent)
  properties,     \* content of server.properties (<< >> when absent)
  pc,             \* per worker thread: position in the handler it runs
  body,           \* per worker thread: request.json
  config,         \* per worker thread: the dict bound to start()'s parameter
  resp            \* per worker thread: the JSON response it returns

vars == << workers, process, is_running, port, current_config, alive,
           spawned, drains, jar_exists, world_exists, eula, properties,
           pc, body, config, resp >>

controller == << process, is_running, port >>
external == << alive, spawned, drains >>
files == << jar_exists, world_exists, eula, properties >>

\* start()'s parameter is a reference: either to the dict the global
\* current_config names now (shared), or to a dict the global no longer names
Shared == [shared |-> TRUE, val |-> EmptyDict]
Detached(d) == [shared |-> FALSE, val |-> d]
Deref(t) == IF config[t].shared THEN current_config ELSE config[t].val

InitWith(n) ==
  /\ workers = n
  /\ process = None
  /\ is_running = FALSE
  /\ port = DefaultPort
  /\ current_config = EmptyDict
  /\ alive = {}
  /\ spawned = 0
  /\ drains = << >>
  /\ jar_exists = FALSE
  /\ world_exists = FALSE
  /\ eula = << >>
  /\ properties = << >>
  /\ pc = [t \in Threads |-> "idle"]
  /\ body = [t \in Threads |-> EmptyDict]
  /\ config = [t \in Threads |-> Detached(EmptyDict)]
  /\ resp = [t \in Threads |-> NoResp]

\* waitress serves requests on several worker threads
Init == InitWith(NThreads)
\* a deployment (or test client) that issues one request at a time
InitSeq == InitWith(1)

(* ---- POST /start-server ---- *)
\* StartServer_Build taking the port from the stored configuration
StartServer_BuildMutKeepPort(t, b) ==
  /\ pc[t] = "idle" /\ t <= workers
  /\ body' = [body EXCEPT ![t] = b]
  /\ current_config' =
       [StartConfig(b) EXCEPT !["port"] = Get(current_config, "port", DefaultPort)]
  /\ config' = [u \in Threads |->
                  IF config[u].shared THEN Detached(current_config) ELSE config[u]]
  /\ pc' = [pc EXCEPT ![t] = "s_check"]
  /\ UNCHANGED << workers, controller, external, files, resp >>

\* lines 167-174: rebind the global current_config to a new dict built from
\* the body; a start() still holding the old dict keeps it
StartServer_Build(t, b) ==
  /\ pc[t] = "idle" /\ t <= workers
  /\ body' = [body EXCEPT ![t] = b]
  /\ current_config' = StartConfig(b)
  /\ config' = [u \in Threads |->
                  IF config[u].shared THEN Detached(current_config) ELSE config[u]]
  /\ pc' = [pc EXCEPT ![t] = "s_check"]
  /\ UNCHANGED << workers, controller, external, files, resp >>

\* StartServer_Check without the is_running test
StartServer_CheckMutNoGuard(t) ==
  /\ pc[t] = "s_check"
  /\ config' = [config EXCEPT ![t] = Shared]
  /\ pc' = [pc EXCEPT ![t] = "s_download"]
  /\ UNCHANGED << workers, controller, current_config, external, files, body, resp >>

\* lines 176-182: reject when running, else call mc_server.start(current_config)
StartServer_Check(t) ==
  /\ pc[t] = "s_check"
  /\ IF is_running
       THEN /\ resp' = [resp EXCEPT ![t] = Resp(FALSE, MsgAlreadyRunning, FALSE, EmptyDict)]
            /\ pc' = [pc EXCEPT ![t] = "done"]
            /\ UNCHANGED config
       ELSE /\ config' = [config EXCEPT ![t] = Shared]
            /\ pc' = [pc EXCEPT ![t] = "s_download"]
            /\ UNCHANGED resp
  /\ UNCHANGED << workers, controller, current_config, external, files, body >>

\* start() returned False: lines 190-194
StartFails(t) ==
  /\ resp' = [resp EXCEPT ![t] = Resp(FALSE, MsgStartFailed, FALSE, EmptyDict)]
  /\ pc' = [pc EXCEPT ![t] = "done"]
  /\ config' = [config EXCEPT ![t] = Detached(EmptyDict)]

\* lines 91-95 and download_server: set the port, fetch the jar if missing
Start_Download(t) ==
  /\ pc[t] = "s_download"
  /\ port' = Get(Deref(t), "port", DefaultPort)
  /\ \/ /\ jar_exists' = TRUE
        /\ pc' = [pc EXCEPT ![t] = "s_boot"]
        /\ UNCHANGED << resp, config >>
     \/ /\ ~jar_exists
        /\ jar_exists' \in BOOLEAN    \* the failure may leave a partial file
        /\ StartFails(t)
  /\ UNCHANGED << workers, process, is_running, current_config, external,
                  world_exists, eula, properties, body >>

\* generate_server_files, lines 52-61: the one-time bootstrap run; a non-zero
\* exit is ignored (no check=True), but subprocess.run raises TimeoutExpired
\* when it kills the run after 30 s, and the except at lines 84-86 returns False
Start_Bootstrap(t) ==
  /\ pc[t] = "s_boot"
  /\ IF world_exists
       THEN /\ pc' = [pc EXCEPT ![t] = "s_files"]
            /\ UNCHANGED << world_exists, resp, config >>
       ELSE \E outcome \in {"exit0", "nonzero", "timeout"} :
              /\ world_exists' \in BOOLEAN   \* the run may have made world/
              /\ IF outcome = "timeout"
                   THEN StartFails(t)
                   ELSE /\ pc' = [pc EXCEPT ![t] = "s_files"]
                        /\ UNCHANGED << resp, config >>
  /\ UNCHANGED << workers, controller, current_config, external, jar_exists,
                  eula, properties, body >>

\* Start_GenerateFiles opening server.properties in append mode
Start_GenerateFilesMutAppend(t) ==
  /\ pc[t] = "s_files"
  /\ \E wrote \in {"all", "eula", "nothing"} :
       /\ eula' = IF wrote \in {"all", "eula"} THEN << "eula=true\n" >> ELSE eula
       /\ properties' = IF wrote = "all" THEN properties \o Properties(Deref(t))
                                          ELSE properties
       /\ IF wrote = "all"
            THEN /\ pc' = [pc EXCEPT ![t] = "s_popen"]
                 /\ UNCHANGED << resp, config >>
            ELSE StartFails(t)
  /\ UNCHANGED << workers, controller, current_config, external, jar_exists,
                  world_exists, body >>

\* generate_server_files, lines 63-86: write eula.txt, then server.properties
Start_GenerateFiles(t) ==
  /\ pc[t] = "s_files"
  /\ \E wrote \in {"all", "eula", "nothing"} :
       /\ eula' = IF wrote \in {"all", "eula"} THEN << "eula=true\n" >> ELSE eula
       /\ properties' = IF wrote = "all" THEN Properties(Deref(t)) ELSE properties
       /\ IF wrote = "all"
            THEN /\ pc' = [pc EXCEPT ![t] = "s_popen"]
                 /\ UNCHANGED << resp, config >>
            ELSE StartFails(t)
  /\ UNCHANGED << workers, controller, current_config, external, jar_exists,
                  world_exists, body >>

\* Start_Popen with the liveness flag set before Popen is called
Start_PopenMutFlagEarly(t) ==
  /\ pc[t] = "s_popen"
  /\ is_running' = TRUE
  /\ \/ /\ spawned < MaxSpawn
        /\ spawned' = spawned + 1
        /\ process' = spawned + 1
        /\ alive' = alive \cup {spawned + 1}
        /\ pc' = [pc EXCEPT ![t] = "s_flag"]
        /\ UNCHANGED << resp, config >>
     \/ /\ StartFails(t)
        /\ UNCHANGED << spawned, process, alive >>
  /\ UNCHANGED << workers, port, current_config, drains, files, body >>

\* lines 103-109: self.process = subprocess.Popen(...)
Start_Popen(t) ==
  /\ pc[t] = "s_popen"
  /\ \/ /\ spawned < MaxSpawn
        /\ spawned' = spawned + 1
        /\ process' = spawned + 1
        /\ alive' = alive \cup {spawned + 1}
        /\ pc' = [pc EXCEPT ![t] = "s_flag"]
        /\ UNCHANGED << resp, config >>
     \/ /\ StartFails(t)      \* Popen raised: lines 127-129
        /\ UNCHANGED << spawned, process, alive >>
  /\ UNCHANGED << workers, is_running, port, current_config, drains, files, body >>

\* lines 111-125: set the flag, start the monitor_output thread, return True
Start_SetRunning(t) ==
  /\ pc[t] = "s_flag"
  /\ is_running' = TRUE
  /\ drains' = Append(drains, [active |-> TRUE, reading |-> None])
  /\ pc' = [pc EXCEPT ![t] = "s_resp"]
  /\ config' = [config EXCEPT ![t] = Detached(EmptyDict)]
  /\ UNCHANGED << workers, process, port, current_config, alive, spawned, files,
                  body, resp >>

\* lines 184-189: echo the global current_config
StartServer_Respond(t) ==
  /\ pc[t] = "s_resp"
  /\ resp' = [resp EXCEPT ![t] = Resp(TRUE, MsgStarted, FALSE, current_config)]
  /\ pc' = [pc EXCEPT ![t] = "done"]
  /\ UNCHANGED << workers, controller, current_config, external, files, body, config >>

(* ---- POST /stop-server ---- *)
\* StopServer_Check without the is_running test
StopServer_CheckMutNoGuard(t) ==
  /\ pc[t] = "idle" /\ t <= workers
  /\ pc' = [pc EXCEPT ![t] = "p_try"]
  /\ UNCHANGED << workers, controller, current_config, external, files, body,
                  config, resp >>

\* lines 206-212
StopServer_Check(t) ==
  /\ pc[t] = "idle" /\ t <= workers
  /\ IF ~is_running
       THEN /\ resp' = [resp EXCEPT ![t] = Resp(FALSE, MsgNotRunning, FALSE, EmptyDict)]
            /\ pc' = [pc EXCEPT ![t] = "done"]
       ELSE /\ pc' = [pc EXCEPT ![t] = "p_try"]
            /\ UNCHANGED resp
  /\ UNCHANGED << workers, controller, current_config, external, files, body, config >>

\* stop(), lines 133-145: the try block
Stop_Try(t) ==
  /\ pc[t] = "p_try"
  /\ IF process # None
       THEN IF ~StdinPipe
              \* self.process.stdin is None: .write raises AttributeError
              THEN /\ pc' = [pc EXCEPT ![t] = "p_except"]
                   /\ UNCHANGED << process, is_running, alive, resp >>
              ELSE \/ \* the write fails, or wait(timeout=30) raises TimeoutExpired
                      /\ pc' = [pc EXCEPT ![t] = "p_except"]
                      /\ UNCHANGED << process, is_running, alive, resp >>
                   \/ \* the process exits within the wait
                      /\ alive' = alive \ {process}
                      /\ process' = None
                      /\ is_running' = FALSE
                      /\ resp' = [resp EXCEPT ![t] = Resp(TRUE, MsgStopped, FALSE, EmptyDict)]
                      /\ pc' = [pc EXCEPT ![t] = "done"]
       ELSE /\ is_running' = FALSE
            /\ resp' = [resp EXCEPT ![t] = Resp(TRUE, MsgStopped, FALSE, EmptyDict)]
            /\ pc' = [pc EXCEPT ![t] = "done"]
            /\ UNCHANGED << process, alive >>
  /\ UNCHANGED << workers, port, current_config, spawned, drains, files, body, config >>

\* Stop_Except also resetting the liveness flag
Stop_ExceptMutResetFlag(t) ==
  /\ pc[t] = "p_except"
  /\ alive' = IF process # None THEN alive \ {process} ELSE alive
  /\ is_running' = FALSE
  /\ resp' = [resp EXCEPT ![t] = Resp(FALSE, MsgStopFailed, FALSE, EmptyDict)]
  /\ pc' = [pc EXCEPT ![t] = "done"]
  /\ UNCHANGED << workers, process, port, current_config, spawned, drains, files,
                  body, config >>

\* Stop_Except also clearing the process handle
Stop_ExceptMutClearHandle(t) ==
  /\ pc[t] = "p_except"
  /\ alive' = IF process # None THEN alive \ {process} ELSE alive
  /\ process' = None
  /\ resp' = [resp EXCEPT ![t] = Resp(FALSE, MsgStopFailed, FALSE, EmptyDict)]
  /\ pc' = [pc EXCEPT ![t] = "done"]
  /\ UNCHANGED << workers, is_running, port, current_config, spawned, drains,
                  files, body, config >>

\* stop(), lines 146-151, and stop_server lines 219-223
Stop_Except(t) ==
  /\ pc[t] = "p_except"
  /\ alive' = IF process # None THEN alive \ {process} ELSE alive   \* terminate()
  /\ resp' = [resp EXCEPT ![t] = Resp(FALSE, MsgStopFailed, FALSE, EmptyDict)]
  /\ pc' = [pc EXCEPT ![t] = "done"]
  /\ UNCHANGED << workers, controller, current_config, spawned, drains, files,
                  body, config >>

(* ---- GET /server-status ---- *)
\* the body server_status returns, lines 234-237
StatusOf ==
  Resp(TRUE, MsgStatus, is_running, IF is_running THEN current_config ELSE EmptyDict)

ServerStatus(t) ==
  /\ pc[t] = "idle" /\ t <= workers
  /\ resp' = [resp EXCEPT ![t] = StatusOf]
  /\ pc' = [pc EXCEPT ![t] = "done"]
  /\ UNCHANGED << workers, controller, current_config, external, files, body, config >>

(* ---- GET and POST /api/config ---- *)
\* lines 259-263
ServerConfig_Get(t) ==
  /\ pc[t] = "idle" /\ t <= workers
  /\ resp' = [resp EXCEPT ![t] = Resp(TRUE, MsgConfig, is_running, current_config)]
  /\ pc' = [pc EXCEPT ![t] = "done"]
  /\ UNCHANGED << workers, controller, current_config, external, files, body, config >>

\* lines 244-251
ServerConfig_Check(t, b) ==
  /\ pc[t] = "idle" /\ t <= workers
  /\ body' = [body EXCEPT ![t] = b]
  /\ IF is_running
       THEN /\ resp' = [resp EXCEPT ![t] = Resp(FALSE, MsgConfigLocked, FALSE, EmptyDict)]
            /\ pc' = [pc EXCEPT ![t] = "done"]
       ELSE /\ pc' = [pc EXCEPT ![t] = "c_update"]
            /\ UNCHANGED resp
  /\ UNCHANGED << workers, controller, current_config, external, files, config >>

\* ServerConfig_Update replacing the stored dict by the body instead of merging
ServerConfig_UpdateMutReplace(t) ==
  /\ pc[t] = "c_update"
  /\ current_config' = body[t]
  /\ resp' = [resp EXCEPT ![t] = Resp(TRUE, MsgConfigUpdated, FALSE, current_config')]
  /\ pc' = [pc EXCEPT ![t] = "done"]
  /\ UNCHANGED << workers, controller, external, files, body, config >>

\* lines 252-258: update the dict the global names, in place, and echo it
ServerConfig_Update(t) ==
  /\ pc[t] = "c_update"
  /\ current_config' = Update(current_config, body[t])
  /\ resp' = [resp EXCEPT ![t] = Resp(TRUE, MsgConfigUpdated, FALSE, current_config')]
  /\ pc' = [pc EXCEPT ![t] = "done"]
  /\ UNCHANGED << workers, controller, external, files, body, config >>

\* the response is sent and the worker thread takes the next request
Return(t) ==
  /\ pc[t] = "done"
  /\ pc' = [pc EXCEPT ![t] = "idle"]
  /\ body' = [body EXCEPT ![t] = EmptyDict]
  /\ resp' = [resp EXCEPT ![t] = NoResp]
  /\ UNCHANGED << workers, controller, current_config, external, files, config >>

(* ---- the monitor_output thread, lines 115-122 ---- *)
\* Monitor also resetting the controller when it sees the process gone
MonitorMutDetectExit(d) ==
  /\ drains[d].active
  /\ IF process # None /\ process \in alive
       THEN /\ drains' = [drains EXCEPT ![d].reading = process]
            /\ UNCHANGED << process, is_running >>
       ELSE /\ drains' = [drains EXCEPT ![d].active = FALSE]
            /\ process' = None
            /\ is_running' = FALSE
  /\ UNCHANGED << workers, port, current_config, alive, spawned, files,
                  pc, body, config, resp >>

\* one turn of the loop: it reads self.process anew each time
Monitor(d) ==
  /\ drains[d].active
  /\ \/ IF process # None /\ process \in alive
          THEN drains' = [drains EXCEPT ![d].reading = process]   \* readline()
          ELSE drains' = [drains EXCEPT ![d].active = FALSE]
     \/ \* readline() raises (output that does not decode): except: break
        /\ process # None /\ process \in alive
        /\ drains' = [drains EXCEPT ![d].active = FALSE]
  /\ UNCHANGED << workers, controller, current_config, alive, spawned, files,
                  pc, body, config, resp >>

(* ---- the external server process exits on its own ---- *)
ProcessExit(p) ==
  /\ p \in alive
  /\ alive' = alive \ {p}
  /\ UNCHANGED << workers, controller, current_config, spawned, drains, files,
                  pc, body, config, resp >>

Next ==
  \/ \E t \in Threads, b \in StartBodies : StartServer_Build(t, b)
  \/ \E t \in Threads : StartServer_Check(t)
  \/ \E t \in Threads : Start_Download(t)
  \/ \E t \in Threads : Start_Bootstrap(t)
  \/ \E t \in Threads : Start_GenerateFiles(t)
  \/ \E t \in Threads : Start_Popen(t)
  \/ \E t \in Threads : Start_SetRunning(t)
  \/ \E t \in Threads : StartServer_Respond(t)
  \/ \E t \in Threads : StopServer_Check(t)
  \/ \E t \in Threads : Stop_Try(t)
  \/ \E t \in Threads : Stop_Except(t)
  \/ \E t \in Threads : ServerStatus(t)
  \/ \E t \in Threads : ServerConfig_Get(t)
  \/ \E t \in Threads, b \in ConfigBodies : ServerConfig_Check(t, b)
  \/ \E t \in Threads : ServerConfig_Update(t)
  \/ \E t \in Threads : Return(t)
  \/ \E d \in 1..Len(drains) : Monitor(d)
  \/ \E p \in Pids : ProcessExit(p)

(* ---- generate_server_files called directly, again and again ---- *)
\* keys a caller may add to the config in an attempt to override the policy
MatOverrides ==
  { EmptyDict,
    [max_players |-> 7, port |-> 1234],
    ("online-mode" :> "true"),
    ("enable-command-block" :> "false") @@ ("spawn-protection" :> "16") }

\* the configs generate_server_files is called with
MatConfigs == { Update(StartConfig(b), o) : b \in StartBodies, o \in MatOverrides }

\* the server directory is provisioned (the jar is there) and thread 1 is
\* about to call generate_server_files(config)
InitMat ==
  /\ workers = 1
  /\ process = None
  /\ is_running = FALSE
  /\ port = DefaultPort
  /\ current_config \in MatConfigs
  /\ alive = {}
  /\ spawned = 0
  /\ drains = << >>
  /\ jar_exists = TRUE
  /\ world_exists \in BOOLEAN
  /\ eula = << >>
  /\ properties = << >>
  /\ pc = [t \in Threads |-> IF t = 1 THEN "s_boot" ELSE "idle"]
  /\ body = [t \in Threads |-> EmptyDict]
  /\ config = [t \in Threads |-> IF t = 1 THEN Shared ELSE Detached(EmptyDict)]
  /\ resp = [t \in Threads |-> NoResp]

\* line 98 again: generate_server_files(config) is called once more with the
\* same config, whether the previous call returned True or False
Materialize_Again(t) ==
  /\ pc[t] \in {"s_popen", "done"}
  /\ pc' = [pc EXCEPT ![t] = "s_boot"]
  /\ resp' = [resp EXCEPT ![t] = NoResp]
  /\ config' = [config EXCEPT ![t] = Shared]
  /\ UNCHANGED << workers, controller, current_config, external, files, body >>

NextMat ==
  \/ \E t \in Threads : Start_Bootstrap(t)
  \/ \E t \in Threads : Start_GenerateFiles(t)
  \/ \E t \in Threads : Materialize_Again(t)

\* repeated materialization of one config on one server directory
SpecMat == InitMat /\ [][NextMat]_vars

\* requests handled concurrently by the worker threads
Spec == Init /\ [][Next]_vars
\* requests handled one at a time
SpecSeq == InitSeq /\ [][Next]_vars

(* ---- requests that follow POST /api/config requests ---- *)
\* the stored configurations that POST /api/config requests, handled while
\* the controller is stopped and before any start, leave behind
PostedConfigs ==
  { Update(EmptyDict, b) : b \in ConfigBodies } \cup
  { Update(Update(EmptyDict, a), b) : a, b \in ConfigBodies }

InitPosted ==
  /\ workers = 1
  /\ process = None
  /\ is_running = FALSE
  /\ port = DefaultPort
  /\ current_config \in PostedConfigs
  /\ alive = {}
  /\ spawned = 0
  /\ drains = << >>
  /\ jar_exists = FALSE
  /\ world_exists = FALSE
  /\ eula = << >>
  /\ properties = << >>
  /\ pc = [t \in Threads |-> "idle"]
  /\ body = [t \in Threads |-> EmptyDict]
  /\ config = [t \in Threads |-> Detached(EmptyDict)]
  /\ resp = [t \in Threads |-> NoResp]

\* requests handled one at a time, after fields were merged by POST /api/config
SpecPosted == InitPosted /\ [][Next]_vars

(* ---- progress ---- *)
\* A worker thread that can take its next step takes it: every call it makes
\* returns (Popen does not wait, subprocess.run and wait have timeout=30),
\* except requests.get(FABRIC_DOWNLOAD_URL, stream=True) and the chunk reads
\* of lines 37-42, which are given no timeout: when the jar has to be fetched,
\* nothing makes the download step end.  readline() in monitor_output returns
\* at end of file once the process has exited.
Fairness ==
  /\ \A t \in Threads :
       /\ WF_vars(StartServer_Check(t))
       /\ WF_vars(jar_exists /\ Start_Download(t))
       /\ WF_vars(Start_Bootstrap(t))
       /\ WF_vars(Start_GenerateFiles(t))
       /\ WF_vars(Start_Popen(t))
       /\ WF_vars(Start_SetRunning(t))
       /\ WF_vars(StartServer_Respond(t))
       /\ WF_vars(Stop_Try(t))
       /\ WF_vars(Stop_Except(t))
       /\ WF_vars(ServerConfig_Update(t))
       /\ WF_vars(Return(t))
  /\ \A d \in Pids : WF_vars(d \in DOMAIN drains /\ Monitor(d))

\* requests handled one at a time, with the progress the code guarantees
SpecLive == InitSeq /\ [][Next]_vars /\ Fairness

(***************************************************************************)
(* Properties                                                              *)
(***************************************************************************)
\* a worker thread has finished a handler with this message
Answered(t, m) == pc[t] = "done" /\ resp[t].msg = m
\* no request is being handled
Quiescent == \A t \in Threads : pc[t] = "idle"
\* positions of a start request that has observed is_running false
InStart == {"s_download", "s_boot", "s_files", "s_popen", "s_flag"}

\* C1: every stop() issued while RUNNING ends with the controller STOPPED:
\* is_running false and the process handle cleared.
C1_StopEndsStopped ==
  \A t \in Threads :
    (pc[t] = "done" /\ resp[t].msg \in {MsgStopped, MsgStopFailed})
      => (~is_running /\ process = None)

\* C2: with requests handled one at a time, a start request that finds the
\* controller running is answered 'Server is already running' and spawns
\* nothing, so at most one external process is live and it is the one the
\* controller references.
C2_SecondStartRejected ==
  /\ [](/\ Cardinality(alive) <= 1 /\ alive \subseteq {process}
        /\ \A t \in Threads : Answered(t, MsgStarted) => process # None)
  /\ [][\A t \in Threads :
          (is_running /\ pc[t] = "s_check" /\ pc'[t] # "s_check")
            => /\ pc'[t] = "done"
               /\ resp'[t].msg = MsgAlreadyRunning /\ ~resp'[t].success
               /\ UNCHANGED << process, alive, spawned >>]_vars

C2_Witness ==
  \E t \in Threads :
    Answered(t, MsgAlreadyRunning) /\ Cardinality(alive) = 1 /\ spawned = 1

\* C3: start and stop run under mutual exclusion: at most one start request
\* at a time has observed STOPPED and not yet finished, every live spawned
\* process is the one the controller references, and no stop runs while a
\* start has set the handle but not yet the flag.
C3_MutualExclusion ==
  /\ Cardinality({t \in Threads : pc[t] \in InStart}) <= 1
  /\ \A p \in alive : p = process
  /\ \A t, u \in Threads : pc[t] \in {"p_try", "p_except"} => pc[u] # "s_flag"

\* C4: no step of a start request handled while the controller is running
\* changes the process handle, the liveness flag, the port or the stored
\* configuration, and the request is answered 'Server is already running'.
C4_RejectedStartNoSideEffects ==
  [][\A t \in Threads :
       (is_running /\ pc'[t] # pc[t] /\ (pc'[t] = "s_check" \/ pc[t] = "s_check"))
         => /\ UNCHANGED << process, is_running, port, current_config >>
            /\ pc[t] = "s_check" => resp'[t].msg = MsgAlreadyRunning]_vars

\* the request config C with the declared defaults for omitted fields
C5_Expected(C) ==
  [ motd        |-> IF "motd" \in DOMAIN C THEN C["motd"] ELSE "A Minecraft Server",
    gamemode    |-> IF "gamemode" \in DOMAIN C THEN C["gamemode"] ELSE "survival",
    difficulty  |-> IF "difficulty" \in DOMAIN C THEN C["difficulty"] ELSE "easy",
    max_players |-> IF "maxPlayers" \in DOMAIN C THEN C["maxPlayers"] ELSE 20,
    port        |-> 25565 ]

\* C5: with requests handled one at a time, when start(C) has succeeded the
\* controller is running and status() reports running = true with config
\* equal to C with the declared defaults filled in (port 25565).
C5_StartThenStatus ==
  \A t \in Threads :
    /\ pc[t] = "s_resp" => is_running
    /\ Answered(t, MsgStarted)
         => /\ resp[t].success /\ is_running
            /\ StatusOf.running
            /\ StatusOf.config = C5_Expected(body[t])
            /\ resp[t].config = C5_Expected(body[t])

C5_Witness ==
  \E t \in Threads :
    /\ Answered(t, MsgStarted)
    /\ body[t] = [motd |-> "Hi", maxPlayers |-> 5]
    /\ StatusOf.config["max_players"] = 5
    /\ StatusOf.config["difficulty"] = "easy"

\* C6: with requests handled one at a time, a start that fails in
\* provisioning, materialization or spawn reports failure and leaves the
\* controller stopped: flag false, no process handle, no drain task launched.
C6_FailedStartStaysStopped ==
  [][\A t \in Threads :
       (pc[t] \in InStart /\ pc'[t] = "done")
         => /\ resp'[t].msg = MsgStartFailed /\ ~resp'[t].success
            /\ ~is_running' /\ process' = None
            /\ drains' = drains /\ alive' = alive
            /\ \A d \in 1..Len(drains') : ~drains'[d].active]_vars

C6_Witness ==
  \E t \in Threads :
    Answered(t, MsgStartFailed) /\ jar_exists /\ properties # << >> /\ ~is_running

\* C7: when writing the stop directive fails, stop() still terminates the
\* process, clears the handle, leaves the controller STOPPED and reports
\* failure.
C7_FailedWriteStillStops ==
  \A t \in Threads :
    Answered(t, MsgStopFailed)
      => /\ ~resp[t].success
         /\ process \notin alive
         /\ process = None /\ ~is_running

\* C8: whenever no request is being handled, is_running is true if and only
\* if the controller references a live external process.
C8_FlagIffLiveProcess ==
  Quiescent => (is_running <=> (process # None /\ process \in alive))

\* C9: a stop request handled while the controller is stopped is answered
\* 'Server is not running' and changes no controller state.
C9_StopWhenStopped ==
  [][\A t \in Threads :
       (~is_running /\ StopServer_Check(t))
         => /\ pc'[t] = "done"
            /\ resp'[t].msg = MsgNotRunning /\ ~resp'[t].success
            /\ UNCHANGED << is_running, process, port, current_config, alive,
                            drains >>]_vars

C9_Witness ==
  \E t \in Threads : Answered(t, MsgNotRunning) /\ ~is_running /\ process = None

\* C10: with requests handled one at a time, POST /api/config while running
\* is answered success = false, 'Cannot change config while server is
\* running' and leaves the stored configuration unchanged; while stopped the
\* posted fields are merged into the stored configuration, which is echoed.
C10_ConfigPost ==
  [][\A t \in Threads :
       /\ \A b \in ConfigBodies :
            ServerConfig_Check(t, b)
              => IF is_running
                   THEN /\ pc'[t] = "done"
                        /\ resp'[t].msg = MsgConfigLocked /\ ~resp'[t].success
                        /\ current_config' = current_config
                   ELSE pc'[t] = "c_update" /\ body'[t] = b
       /\ ServerConfig_Update(t)
            => /\ DOMAIN current_config' = DOMAIN current_config \cup DOMAIN body[t]
               /\ \A k \in DOMAIN body[t] : current_config'[k] = body[t][k]
               /\ \A k \in DOMAIN current_config \ DOMAIN body[t] :
                    current_config'[k] = current_config[k]
               /\ resp'[t].success /\ resp'[t].msg = MsgConfigUpdated
               /\ resp'[t].config = current_config'
               /\ ~is_running]_vars

C10_Witness ==
  \E t \in Threads :
    /\ Answered(t, MsgConfigLocked) /\ is_running
    /\ body[t] = [difficulty |-> "hard"]
    /\ current_config["difficulty"] = "easy"

\* C11: status() is a pure read that always answers, and whenever the
\* controller is running the configuration it reports is the one applied by
\* the start that spawned the running process (the one materialized in
\* server.properties), after any sequence of start, stop and config requests.
C11_StatusReportsApplied ==
  [][/\ \A t \in Threads :
          ServerStatus(t)
            => /\ UNCHANGED << process, is_running, port, current_config, alive,
                               drains, files >>
               /\ pc'[t] = "done" /\ resp'[t].running = is_running
     /\ is_running' => Properties(StatusOf.config)' = properties']_vars

\* C12: whatever the outcome of the one-time bootstrap run (exit, non-zero
\* exit or timeout), materialization goes on to write the license file and
\* the properties file, so the bootstrap never fails the enclosing start.
C12_BootstrapTolerated ==
  [][\A t \in Threads :
       (pc[t] = "s_boot" /\ pc'[t] # "s_boot")
         => pc'[t] = "s_files" /\ resp'[t] = resp[t]]_vars

\* the lines of a file
Lines(f) == { f[i] : i \in 1..Len(f) }

\* C13: materializing a config again on a provisioned directory leaves the
\* properties file content as the first time, and that content always holds
\* online-mode=false, enable-command-block=true and spawn-protection=0, and
\* no other value for these keys, even when the config carries its own.
C13_MaterializeIdempotent ==
  /\ [](properties # << >>
         => /\ {"online-mode=false\n", "enable-command-block=true\n",
                "spawn-protection=0\n"} \subseteq Lines(properties)
            /\ Lines(properties) \cap {"online-mode=true\n",
                 "enable-command-block=false\n", "spawn-protection=16\n"} = {}
            /\ Len(properties) = 8)
  /\ [][(properties # << >> /\ properties' # << >>) => properties' = properties]_vars

\* the file has been written and generate_server_files is writing it again
C13_Witness ==
  /\ pc[1] = "s_files" /\ properties # << >> /\ eula # << >>
  /\ "online-mode" \in DOMAIN current_config
  /\ current_config["online-mode"] = "true"

\* C14: every start and every stop call eventually returns.
C14_CallsReturn ==
  \A t \in Threads :
    (pc[t] \in InStart \cup {"s_check", "s_resp", "p_try", "p_except"})
      ~> (pc[t] = "done")

\* C15: each successful spawn launches exactly one drain task, and at most
\* one running drain task reads the output stream of any live process.
C15_OneDrainPerProcess ==
  /\ Len(drains) <= spawned
  /\ \A p \in alive :
       Cardinality({d \in DOMAIN drains :
                      drains[d].active /\ drains[d].reading = p}) <= 1

\* the d-th monitor_output thread has been started and is still in its loop
DrainRuns(d) == d \in DOMAIN drains /\ drains[d].active

\* C16: a drain task stops once the process it reads has exited, and no step
\* of a drain task, reading or stopping, changes the liveness flag, the
\* process handle, the port or the stored configuration.
C16_DrainEndsNoMutation ==
  /\ \A d \in Pids :
       (DrainRuns(d) /\ process \notin alive) ~> (~DrainRuns(d))
  /\ [][\A d \in DOMAIN drains :
          (drains[d].active /\ drains'[d] # drains[d])
            => UNCHANGED << is_running, process, port, current_config >>]_vars

C16_Witness ==
  /\ drains # << >> /\ ~drains[1].active /\ drains[1].reading = 1
  /\ alive = {} /\ is_running /\ process = 1

\* C17: whenever the controller is running, the port in the stored
\* configuration is 25565, for every start body and every interleaving of
\* POST /api/config requests.
C17_PortForced ==
  is_running => ("port" \in DOMAIN current_config /\ current_config["port"] = 25565)

\* C18: is_running goes from true to false only in the step of a stop() call
\* that has written the stop directive and seen the process exit within the
\* wait (it clears the handle and answers 'Server stopped successfully'); no
\* other step, a stop that raises included, resets it.
C18_FlagResetOnlyByCleanStop ==
  [][(is_running /\ ~is_running')
       => \E t \in Threads :
            /\ pc[t] = "p_try" /\ pc'[t] = "done"
            /\ resp'[t].msg = MsgStopped
            /\ process # None /\ process' = None /\ process \notin alive']_vars

\* a stop that raised has returned and the flag is still set
C18_Witness ==
  \E t \in Threads : Answered(t, MsgStopFailed) /\ is_running /\ alive = {}

\* positions inside mc_server.start() and mc_server.stop()
InCall == InStart \cup {"p_try", "p_except"}

\* C20: whenever no start() or stop() call is in progress, is_running is
\* true if and only if the process reference is not None, whether or not the
\* referenced process is still alive.
C20_FlagIffHandle ==
  (\A t \in Threads : pc[t] \notin InCall) => (is_running <=> process # None)

\* the flag and the handle are both set although the process is gone
C20_Witness ==
  /\ \A t \in Threads : pc[t] \notin InCall
  /\ is_running /\ process # None /\ process \notin alive

\* the properties file for a configuration record c
C19_Lines(c) ==
  << "motd=" \o c.motd \o "\n",
     "gamemode=" \o c.gamemode \o "\n",
     "difficulty=" \o c.difficulty \o "\n",
     "max-players=" \o ToString(c.max_players) \o "\n",
     "server-port=" \o ToString(c.port) \o "\n",
     "online-mode=false\n", "enable-command-block=true\n",
     "spawn-protection=0\n" >>

\* C19: with requests handled one at a time after POST /api/config has
\* merged fields into the stored configuration, a start request replaces the
\* stored configuration by one built from its own body and the defaults
\* alone, and that is what it writes to the properties file.
C19_StartDiscardsPosted ==
  [][\A t \in Threads :
       /\ \A b \in StartBodies :
            StartServer_Build(t, b) => current_config' = C5_Expected(b)
       /\ (pc[t] = "s_files" /\ pc'[t] = "s_popen")
            => properties' = C19_Lines(C5_Expected(body[t]))]_vars

C19_Witness ==
  \E t \in Threads :
    /\ pc[t] = "s_popen" /\ body[t] = [motd |-> "Hi", maxPlayers |-> 5]
    /\ properties = << "motd=Hi\n", "gamemode=survival\n", "difficulty=easy\n",
                       "max-players=5\n", "server-port=25565\n",
                       "online-mode=false\n", "enable-command-block=true\n",
                       "spawn-protection=0\n" >>
    /\ current_config["port"] = 25565 /\ current_config["max_players"] = 5

====
